---------------------------- MODULE Spec2Model ----------------------------
(***************************************************************************)
(* WhisperKit serve-CLI Python client (Examples/ServeCLIClient/Python).    *)
(*                                                                         *)
(* Three state machines share this module:                                 *)
(*   SpecClean   - WhisperKitClient._clean_whisperkit_text as a pure       *)
(*                 function over character sequences;                      *)
(*   Spec        - one call of WhisperKitClient.transcribe / translate,    *)
(*                 including the server-sent-event consumer and the        *)
(*                 fallback to the non-streaming request;                  *)
(*   SpecScript  - main() of test_transcribe.py / test_translate.py.       *)
(*                                                                         *)
(* Text is a sequence of one-character strings, so that the regular        *)
(* expressions of the source act on characters.                            *)
(***************************************************************************)
EXTENDS Integers, Sequences, FiniteSets, TLC

VARIABLES
    \* --- _clean_whisperkit_text, applied to a text under construction
    c_pc,            \* "build" | "once" | "twice"
    c_frags,         \* the fragments the argument `text` is assembled from
    c_once,          \* _clean_whisperkit_text(text)
    c_twice,         \* _clean_whisperkit_text(_clean_whisperkit_text(text))
    \* --- one call of WhisperKitClient.transcribe / translate
    pc,              \* "idle" | "streaming" | "returned"
    call,            \* the arguments of the call
    attempts,        \* the request attempts made so far, with their outcome
    final_text,      \* local `final_text` of _transcribe_streaming
    seen,            \* the lines of the stream consumed so far, in order
    stream_end,      \* "none" | "open" | "exhausted" | "exception"
    result,          \* the value returned to the caller
    raised,          \* the methods an exception escaped from
    \* --- main() of test_transcribe.py / test_translate.py
    s_pc,            \* "start" | "loop" | "exited"
    s_script,        \* "transcribe" | "translate"
    s_dir,           \* listing of Tests/WhisperKitTests/Resources, or absent
    s_file,          \* args.file
    test_files,      \* get_test_audio_files()
    files_to_process,
    s_idx,           \* position of the processing loop
    s_out,           \* what the process printed, as message tags
    s_calls,         \* client.audio.*.create calls made so far
    exit_code        \* process exit status, -1 while running

clean_vars == <<c_pc, c_frags, c_once, c_twice>>
client_vars == <<pc, call, attempts, final_text, seen, stream_end, result, raised>>
script_vars == <<s_pc, s_script, s_dir, s_file, test_files, files_to_process,
                 s_idx, s_out, s_calls, exit_code>>
vars == <<clean_vars, client_vars, script_vars>>

-----------------------------------------------------------------------------
(* Bounds of the model                                                     *)

\* number of fragments a cleaned text is assembled from
MaxFrags == 5
\* number of lines the server sends on one stream
MaxEvents == 3
\* number of entries in the resources directory
MaxEntries == 3

-----------------------------------------------------------------------------
(* Text helpers                                                            *)

\* characters matched by \s and removed by str.strip()
Whitespace == {" ", "\n"}

RECURSIVE Concat(_)
Concat(ss) == IF ss = <<>> THEN <<>> ELSE Head(ss) \o Concat(Tail(ss))

-----------------------------------------------------------------------------
(* WhisperKitClient._clean_whisperkit_text                                 *)

\* index of the first ">" of s at or after `from`, 0 when there is none
FirstGt(s, from) ==
    IF \E j \in from..Len(s) : s[j] = ">"
    THEN CHOOSE j \in from..Len(s) :
             s[j] = ">" /\ \A k \in from..(j - 1) : s[k] # ">"
    ELSE 0

\* re.match of <\|[^>]+\|> at index i: the index of the closing ">", or 0.
\* "[^>]+" cannot cross a ">", so the match can only end at the first ">"
\* after "<|", which must be preceded by "|" and by at least one more
\* character.
MarkerEnd(s, i) ==
    IF i + 1 <= Len(s) /\ s[i] = "<" /\ s[i + 1] = "|"
    THEN LET j == FirstGt(s, i + 2)
         IN  IF j >= i + 4 /\ s[j - 1] = "|" THEN j ELSE 0
    ELSE 0

\* re.sub(r'<\|[^>]+\|>', '', s): leftmost non-overlapping matches removed
RECURSIVE SubFrom(_, _)
SubFrom(s, i) ==
    IF i > Len(s) THEN <<>>
    ELSE LET j == MarkerEnd(s, i)
         IN  IF j # 0 THEN SubFrom(s, j + 1)
             ELSE <<s[i]>> \o SubFrom(s, i + 1)

SubMarkers(s) == SubFrom(s, 1)

\* re.sub(r'\s+', ' ', s)
RECURSIVE CollapseFrom(_, _)
CollapseFrom(s, i) ==
    IF i > Len(s) THEN <<>>
    ELSE IF s[i] \in Whitespace
         THEN (IF i > 1 /\ s[i - 1] \in Whitespace THEN <<>> ELSE <<" ">>)
              \o CollapseFrom(s, i + 1)
         ELSE <<s[i]>> \o CollapseFrom(s, i + 1)

CollapseWhitespace(s) == CollapseFrom(s, 1)

\* str.strip()
RECURSIVE LStrip(_)
LStrip(s) ==
    IF s # <<>> /\ Head(s) \in Whitespace THEN LStrip(Tail(s)) ELSE s

RECURSIVE RStrip(_)
RStrip(s) ==
    IF s # <<>> /\ s[Len(s)] \in Whitespace
    THEN RStrip(SubSeq(s, 1, Len(s) - 1)) ELSE s

Strip(s) == RStrip(LStrip(s))

clean_whisperkit_text(text) ==
    LET cleaned1 == SubMarkers(text)
        cleaned2 == SubMarkers(cleaned1)
    IN  Strip(CollapseWhitespace(cleaned2))

\* s holds "<|" followed by any characters followed by "|>"
HasMarkerShape(s) ==
    \E i \in 1..Len(s) : \E j \in 1..Len(s) :
        /\ i + 2 <= j /\ j + 1 <= Len(s)
        /\ s[i] = "<" /\ s[i + 1] = "|"
        /\ s[j] = "|" /\ s[j + 1] = ">"

-----------------------------------------------------------------------------
(* SpecClean: a text is assembled from fragments, then cleaned twice        *)

Fragments ==
    { <<"<">>, <<"|">>, <<">">>, <<"a">>, <<" ">>, <<"\n">>,
      <<"<", "|", "a", "|", ">">>, <<"|", "a", "|", ">">> }

\* the argument `text` of the call
c_text == Concat(c_frags)

CleanIdle ==
    /\ c_pc = "build" /\ c_frags = <<>> /\ c_once = <<>> /\ c_twice = <<>>

\* the caller extends the text it is about to clean
CleanAppend ==
    /\ c_pc = "build"
    /\ Len(c_frags) < MaxFrags
    /\ \E f \in Fragments : c_frags' = Append(c_frags, f)
    /\ UNCHANGED <<c_pc, c_once, c_twice>>
    /\ UNCHANGED <<client_vars, script_vars>>

\* cleaned = self._clean_whisperkit_text(text)
CleanCall ==
    /\ c_pc = "build"
    /\ c_once' = clean_whisperkit_text(c_text)
    /\ c_pc' = "once"
    /\ UNCHANGED <<c_frags, c_twice>>
    /\ UNCHANGED <<client_vars, script_vars>>

\* self._clean_whisperkit_text(cleaned)
CleanAgain ==
    /\ c_pc = "once"
    /\ c_twice' = clean_whisperkit_text(c_once)
    /\ c_pc' = "twice"
    /\ UNCHANGED <<c_frags, c_once>>
    /\ UNCHANGED <<client_vars, script_vars>>

-----------------------------------------------------------------------------
(* Values of the client                                                    *)

\* Optional[str]: None, or a str
None == [none |-> TRUE, text |-> <<>>]
Str(t) == [none |-> FALSE, text |-> t]

\* outcome of a block of code: a value returned, or an exception raised
Return(v) == [exc |-> FALSE, value |-> v]
Raise == [exc |-> TRUE, value |-> None]

\* a dict as a function; d[k] = v overwrites an existing key
EmptyDict == [k \in {} |-> <<>>]
DictSet(d, k, v) == [x \in DOMAIN d \cup {k} |-> IF x = k THEN v ELSE d[x]]

\* ",".join(items): a string is kept as the sequence of its pieces
RECURSIVE Join(_)
Join(items) ==
    IF items = <<>> THEN <<>>
    ELSE IF Len(items) = 1 THEN <<items[1]>>
    ELSE <<items[1], ",">> \o Join(Tail(items))

-----------------------------------------------------------------------------
(* Inputs: arguments of a call, answers of the server, lines of a stream   *)

AudioPaths == {"jfk.wav", "es_test_clip.wav"}
Languages == {"", "en"}
Models == {"tiny"}
Formats == {"json", "verbose_json"}
\* Optional[List[str]]: <<>> stands for None and for the empty list, which
\* the code does not tell apart (it only tests truthiness)
Granularities == {<<>>, <<"word">>, <<"segment">>, <<"word", "segment">>}
Includes == {<<>>, <<"logprobs">>, <<"logprobs", "tokens">>}

\* transcribe(audio_path, language, model, stream=False, ...)
TranscribeCalls ==
    [op : {"transcribe"}, audio_path : AudioPaths, language : Languages,
     model : Models, stream : {FALSE}, response_format : Formats,
     timestamp_granularities : Granularities, include : Includes]

\* transcribe(audio_path, language, model, stream=True, ...); `include` is
\* not handed to _transcribe_streaming and is left at its default
StreamingCalls ==
    [op : {"transcribe"}, audio_path : AudioPaths, language : Languages,
     model : Models, stream : {TRUE}, response_format : Formats,
     timestamp_granularities : {<<>>, <<"word", "segment">>},
     include : {<<>>}]

\* translate(audio_path, model, response_format, timestamp_granularities)
TranslateCalls ==
    [op : {"translate"}, audio_path : AudioPaths, language : {""},
     model : Models, stream : {FALSE}, response_format : Formats,
     timestamp_granularities : Granularities, include : {<<>>}]

NoCall ==
    [op |-> "none", audio_path |-> "", language |-> "", model |-> "",
     stream |-> FALSE, response_format |-> "",
     timestamp_granularities |-> <<>>, include |-> <<>>]

\* what happens to one request: open() fails, requests.post raises, or the
\* server answers with a status and a body
Outcome(io, status, body, has_text, text) ==
    [io |-> io, status |-> status, body |-> body,
     has_text |-> has_text, text |-> text]

OpenFailed == Outcome("open_failed", 0, "none", FALSE, <<>>)
ConnError == Outcome("conn_error", 0, "none", FALSE, <<>>)
Answered(status, body, has_text, text) ==
    Outcome("answered", status, body, has_text, text)

ErrorStatuses == {404, 500}
ResponseTexts == {<<"h", "i">>}

\* answers to a non-streaming request
PlainOutcomes ==
    {OpenFailed, ConnError}
    \cup {Answered(st, "not_json", FALSE, <<>>) : st \in ErrorStatuses}
    \cup {Answered(200, "not_json", FALSE, <<>>),
          Answered(200, "not_object", FALSE, <<>>),
          Answered(200, "object", FALSE, <<>>)}
    \cup {Answered(200, "object", TRUE, t) : t \in ResponseTexts}

\* answers to the streaming request, up to the response headers
StreamOutcomes ==
    {OpenFailed, ConnError}
    \cup {Answered(st, "not_json", FALSE, <<>>) : st \in ErrorStatuses}
    \cup {Answered(200, "stream", FALSE, <<>>)}

\* one line of response.iter_lines()
Line(kind, type, has_delta, delta, has_text, text, raw) ==
    [kind |-> kind, type |-> type, has_delta |-> has_delta, delta |-> delta,
     has_text |-> has_text, text |-> text, raw |-> raw]

EmptyLine == Line("empty", "", FALSE, <<>>, FALSE, <<>>, <<>>)
CommentLine == Line("no_prefix", "", FALSE, <<>>, FALSE, <<>>, <<>>)
\* data: <valid JSON that is not an object>
NonObjectLine == Line("json_value", "", FALSE, <<>>, FALSE, <<>>, <<>>)
\* data: {"type": <type>, ...}
ObjectLine(type, has_delta, delta, has_text, text) ==
    Line("json_object", type, has_delta, delta, has_text, text, <<>>)
\* data: <text that is not JSON>
RawLine(raw) == Line("not_json", "", FALSE, <<>>, FALSE, <<>>, raw)

DeltaType == "transcript.text.delta"
DoneType == "transcript.text.done"

DeltaTexts ==
    { <<>>,
      <<"<", "|", "a", "|", ">", " ", "a">>,
      <<" ", "b", " ">>,
      <<"<", "|", "a", "|", ">">> }
DoneTexts == { <<>>, <<"c">>, <<"<", "|", "a", "|", ">", "c">> }
RawTexts == { <<" ", " ">>, <<" ", "r", " ">> }

Lines ==
    {EmptyLine, CommentLine, NonObjectLine}
    \cup {ObjectLine("other", FALSE, <<>>, FALSE, <<>>),
          ObjectLine("", FALSE, <<>>, FALSE, <<>>)}
    \cup {ObjectLine(DeltaType, FALSE, <<>>, FALSE, <<>>)}
    \cup {ObjectLine(DeltaType, TRUE, d, FALSE, <<>>) : d \in DeltaTexts}
    \cup {ObjectLine(DoneType, FALSE, <<>>, FALSE, <<>>)}
    \cup {ObjectLine(DoneType, FALSE, <<>>, TRUE, t) : t \in DoneTexts}
    \cup {RawLine(r) : r \in RawTexts}

-----------------------------------------------------------------------------
(* Building the requests                                                   *)

TranscriptionsUrl == "/v1/audio/transcriptions"
TranslationsUrl == "/v1/audio/translations"
GranularitiesField == "timestamp_granularities[]"
IncludeField == "include[]"

\* "if language:" and "if timestamp_granularities:" of both builders
with_language(d, c) ==
    IF c.language # "" THEN DictSet(d, "language", <<c.language>>) ELSE d

with_granularities(d, c) ==
    IF c.timestamp_granularities # <<>>
    THEN DictSet(d, GranularitiesField, Join(c.timestamp_granularities))
    ELSE d

\* "for include_item in include: data['include[]'] = include_item"
RECURSIVE with_include(_, _)
with_include(d, items) ==
    IF items = <<>> THEN d
    ELSE with_include(DictSet(d, IncludeField, <<Head(items)>>), Tail(items))

streaming_data(c) ==
    LET d0 == DictSet(DictSet(DictSet(EmptyDict,
                  "model", <<c.model>>),
                  "response_format", <<c.response_format>>),
                  "stream", <<"true">>)
    IN  with_granularities(with_language(d0, c), c)

non_streaming_data(c) ==
    LET d0 == DictSet(DictSet(EmptyDict,
                  "model", <<c.model>>),
                  "response_format", <<c.response_format>>)
    IN  with_include(with_granularities(with_language(d0, c), c), c.include)

\* translate_data with the commented-out lines 253-254 active
translate_data_granular(c) ==
    with_granularities(
        DictSet(DictSet(EmptyDict,
            "model", <<c.model>>),
            "response_format", <<c.response_format>>), c)

translate_data(c) ==
    DictSet(DictSet(EmptyDict,
        "model", <<c.model>>),
        "response_format", <<c.response_format>>)

\* one attempt at a request: the method, its arguments, and, unless open()
\* failed before requests.post was reached, what was posted and the outcome
Attempt(method, c, url, data, sse, o) ==
    LET sent == o.io # "open_failed"
    IN  [method |-> method, args |-> c, sent |-> sent,
         url |-> IF sent THEN url ELSE "",
         file |-> IF sent THEN c.audio_path ELSE "",
         data |-> IF sent THEN data ELSE EmptyDict,
         sse |-> sent /\ sse,
         resp |-> o]

streaming_attempt(c, o) ==
    Attempt("_transcribe_streaming", c, TranscriptionsUrl,
            streaming_data(c), TRUE, o)

non_streaming_attempt(c, o) ==
    Attempt("_transcribe_non_streaming", c, TranscriptionsUrl,
            non_streaming_data(c), FALSE, o)

translate_attempt(c, o) ==
    Attempt("translate", c, TranslationsUrl, translate_data(c), FALSE, o)

-----------------------------------------------------------------------------
(* Reading the responses                                                   *)

\* a status check that lets every status through
status_never_failed(status) == FALSE

\* "if response.status_code != 200:"
status_failed(status) == status # 200

\* result.get("text", "")
response_text(o) == IF o.has_text THEN o.text ELSE <<>>

\* the try block of _transcribe_non_streaming, from open() to "return text"
non_streaming_body(o) ==
    IF o.io # "answered" THEN Raise
    ELSE IF status_failed(o.status) THEN Return(None)
    ELSE IF o.body # "object" THEN Raise
    ELSE Return(Str(response_text(o)))

\* the try block of translate
translate_body(o) ==
    IF o.io # "answered" THEN Raise
    ELSE IF status_failed(o.status) THEN Return(None)
    ELSE IF o.body # "object" THEN Raise
    ELSE Return(Str(response_text(o)))

\* a handler that lets the exception through
except_missing(r) == r

\* "except Exception as e: print(...); return None" of the four methods
except_transcribe(r) == IF r.exc THEN Return(None) ELSE r
except_streaming(r) == IF r.exc THEN Return(None) ELSE r
except_non_streaming(r) == IF r.exc THEN Return(None) ELSE r
except_translate(r) == IF r.exc THEN Return(None) ELSE r

\* the method, when the outcome of its frame is still an exception
Escaped(method, r) == IF r.exc THEN {method} ELSE {}

transcribe_non_streaming(o) == except_non_streaming(non_streaming_body(o))

-----------------------------------------------------------------------------
(* The stream event consumer of _transcribe_streaming                      *)

Text(t) == [exc |-> FALSE, text |-> t]
TextRaise(t) == [exc |-> TRUE, text |-> t]

\* on_delta with the fragment put in front of the accumulated text
on_delta_prepend(ft, e) ==
    LET delta == IF e.has_delta THEN e.delta ELSE <<>>
    IN  IF delta # <<>> THEN clean_whisperkit_text(delta) \o ft ELSE ft

\* "delta = event_data.get('delta', ''); if delta: final_text += clean_delta"
on_delta(ft, e) ==
    LET delta == IF e.has_delta THEN e.delta ELSE <<>>
    IN  IF delta # <<>> THEN ft \o clean_whisperkit_text(delta) ELSE ft

\* on_done written as "final_text = final_text or event_data.get('text')"
on_done_keep(ft, e) ==
    IF ft # <<>> THEN ft ELSE IF e.has_text THEN e.text ELSE ft

\* "final_text = event_data.get('text', final_text)"
on_done(ft, e) == IF e.has_text THEN e.text ELSE ft

\* on_decode_error with the payload appended as received
on_decode_error_append(ft, e) ==
    IF Strip(e.raw) # <<>> THEN ft \o e.raw ELSE ft

\* "except json.JSONDecodeError: if data_str.strip(): final_text = ..."
on_decode_error(ft, e) ==
    IF Strip(e.raw) # <<>> THEN Strip(e.raw) ELSE ft

\* process_line with the text reset by an event of another type
process_line_reset(ft, e) ==
    IF e.kind = "empty" THEN Text(ft)
    ELSE IF e.kind = "no_prefix" THEN Text(ft)
    ELSE IF e.kind = "not_json" THEN Text(on_decode_error(ft, e))
    ELSE IF e.kind = "json_value" THEN TextRaise(ft)
    ELSE IF e.type = DeltaType THEN Text(on_delta(ft, e))
    ELSE IF e.type = DoneType THEN Text(on_done(ft, e))
    ELSE Text(<<>>)

\* the body of "for line in response.iter_lines():" for one line
process_line(ft, e) ==
    IF e.kind = "empty" THEN Text(ft)
    ELSE IF e.kind = "no_prefix" THEN Text(ft)
    ELSE IF e.kind = "not_json" THEN Text(on_decode_error(ft, e))
    ELSE IF e.kind = "json_value" THEN TextRaise(ft)
    ELSE IF e.type = DeltaType THEN Text(on_delta(ft, e))
    ELSE IF e.type = DoneType THEN Text(on_done(ft, e))
    ELSE Text(ft)

\* fallback_args with the timestamp granularities left at their default
fallback_args_default(c) ==
    [c EXCEPT !.include = <<>>, !.timestamp_granularities = <<>>]

\* the arguments _transcribe_streaming passes on to _transcribe_non_streaming
fallback_args(c) == [c EXCEPT !.include = <<>>]

\* stream_finish without the check for an empty final text
stream_finish_no_fallback(c, ft, o) ==
    [attempts |-> <<>>, inner |-> Return(Str(ft))]

\* stream_finish with the non-streaming request repeated when it fails
stream_finish_retry(c, ft, o) ==
    IF ft = <<>>
    THEN [attempts |->
              IF transcribe_non_streaming(o).value = None
              THEN <<non_streaming_attempt(fallback_args(c), o),
                     non_streaming_attempt(fallback_args(c), o)>>
              ELSE <<non_streaming_attempt(fallback_args(c), o)>>,
          inner |-> transcribe_non_streaming(o)]
    ELSE [attempts |-> <<>>, inner |-> Return(Str(ft))]

\* after the loop: "if not final_text: return self._transcribe_non_streaming(
\* ...)" and "return final_text"
stream_finish(c, ft, o) ==
    IF ft = <<>>
    THEN [attempts |-> <<non_streaming_attempt(fallback_args(c), o)>>,
          inner |-> transcribe_non_streaming(o)]
    ELSE [attempts |-> <<>>, inner |-> Return(Str(ft))]

-----------------------------------------------------------------------------
(* Spec: one call of the client                                            *)

CleanUnused ==
    /\ c_pc = "unused" /\ c_frags = <<>> /\ c_once = <<>> /\ c_twice = <<>>

ScriptUnused ==
    /\ s_pc = "unused" /\ s_script = "" /\ s_dir = <<>> /\ s_file = ""
    /\ test_files = <<>> /\ files_to_process = <<>> /\ s_idx = 0
    /\ s_out = <<>> /\ s_calls = <<>> /\ exit_code = -1

ClientIdle ==
    /\ pc = "idle" /\ call = NoCall /\ attempts = <<>>
    /\ final_text = <<>> /\ seen = <<>> /\ stream_end = "none"
    /\ result = None /\ raised = {}

ClientUnused ==
    /\ pc = "unused" /\ call = NoCall /\ attempts = <<>>
    /\ final_text = <<>> /\ seen = <<>> /\ stream_end = "none"
    /\ result = None /\ raised = {}

Init == ClientIdle /\ CleanUnused /\ ScriptUnused

\* transcribe(..., stream=False): the whole call
TranscribeNonStreaming ==
    /\ pc = "idle"
    /\ \E c \in TranscribeCalls : \E o \in PlainOutcomes :
          /\ ~c.stream
          /\ LET inner == transcribe_non_streaming(o)
                 outer == except_transcribe(inner)
             IN  /\ call' = c
                 /\ attempts' = <<non_streaming_attempt(c, o)>>
                 /\ result' = outer.value
                 /\ raised' = Escaped("_transcribe_non_streaming", inner)
                              \cup Escaped("transcribe", outer)
    /\ pc' = "returned"
    /\ UNCHANGED <<final_text, seen, stream_end>>
    /\ UNCHANGED <<clean_vars, script_vars>>

\* transcribe(..., stream=True) up to the response headers: the call returns
\* when the request fails, and starts reading the stream on status 200
TranscribeStreaming ==
    /\ pc = "idle"
    /\ \E c \in StreamingCalls : \E o \in StreamOutcomes :
          /\ c.stream
          /\ call' = c
          /\ attempts' = <<streaming_attempt(c, o)>>
          /\ IF o.io = "answered" /\ ~status_failed(o.status)
             THEN /\ pc' = "streaming"
                  /\ stream_end' = "open"
                  /\ UNCHANGED <<result, raised>>
             ELSE LET body == IF o.io # "answered" THEN Raise
                              ELSE Return(None)
                      inner == except_streaming(body)
                      outer == except_transcribe(inner)
                  IN  /\ pc' = "returned"
                      /\ result' = outer.value
                      /\ raised' = Escaped("_transcribe_streaming", inner)
                                   \cup Escaped("transcribe", outer)
                      /\ UNCHANGED stream_end
    /\ final_text' = <<>>
    /\ UNCHANGED seen
    /\ UNCHANGED <<clean_vars, script_vars>>

\* one iteration of "for line in response.iter_lines():"
StreamLine ==
    /\ pc = "streaming"
    /\ Len(seen) < MaxEvents
    /\ \E e \in Lines :
          LET r == process_line(final_text, e)
              inner == except_streaming(Raise)
              outer == except_transcribe(inner)
          IN  /\ seen' = Append(seen, e)
              /\ final_text' = r.text
              /\ IF r.exc
                 THEN /\ pc' = "returned"
                      /\ stream_end' = "exception"
                      /\ result' = outer.value
                      /\ raised' = Escaped("_transcribe_streaming", inner)
                                   \cup Escaped("transcribe", outer)
                 ELSE UNCHANGED <<pc, stream_end, result, raised>>
    /\ UNCHANGED <<call, attempts>>
    /\ UNCHANGED <<clean_vars, script_vars>>

\* response.iter_lines() raises: the connection broke while reading
StreamReadError ==
    /\ pc = "streaming"
    /\ LET inner == except_streaming(Raise)
           outer == except_transcribe(inner)
       IN  /\ result' = outer.value
           /\ raised' = Escaped("_transcribe_streaming", inner)
                        \cup Escaped("transcribe", outer)
    /\ pc' = "returned"
    /\ stream_end' = "exception"
    /\ UNCHANGED <<call, attempts, final_text, seen>>
    /\ UNCHANGED <<clean_vars, script_vars>>

\* the stream is exhausted: the code after the loop, fallback included
StreamExhausted ==
    /\ pc = "streaming"
    /\ \E o \in PlainOutcomes :
          LET fin == stream_finish(call, final_text, o)
              inner == except_streaming(fin.inner)
              outer == except_transcribe(inner)
          IN  /\ attempts' = attempts \o fin.attempts
              /\ result' = outer.value
              /\ raised' = Escaped("_transcribe_streaming", inner)
                           \cup Escaped("transcribe", outer)
    /\ pc' = "returned"
    /\ stream_end' = "exhausted"
    /\ UNCHANGED <<call, final_text, seen>>
    /\ UNCHANGED <<clean_vars, script_vars>>

\* translate(...): the whole call
Translate ==
    /\ pc = "idle"
    /\ \E c \in TranslateCalls : \E o \in PlainOutcomes :
          LET outer == except_translate(translate_body(o))
          IN  /\ call' = c
              /\ attempts' = <<translate_attempt(c, o)>>
              /\ result' = outer.value
              /\ raised' = Escaped("translate", outer)
    /\ pc' = "returned"
    /\ UNCHANGED <<final_text, seen, stream_end>>
    /\ UNCHANGED <<clean_vars, script_vars>>

Next ==
    \/ TranscribeNonStreaming
    \/ TranscribeStreaming
    \/ StreamLine
    \/ StreamReadError
    \/ StreamExhausted
    \/ Translate

Spec == Init /\ [][Next]_vars

-----------------------------------------------------------------------------
(* SpecClean                                                                *)

CleanInit == CleanIdle /\ ClientUnused /\ ScriptUnused

CleanNext == CleanAppend \/ CleanCall \/ CleanAgain

SpecClean == CleanInit /\ [][CleanNext]_vars

-----------------------------------------------------------------------------
(* SpecScript: main() of test_transcribe.py and of test_translate.py       *)

\* entries the resources directory may hold, in the order sorted() gives
\* their paths (upper case sorts before lower case)
Entry(name, suffix, is_file) ==
    [name |-> name, suffix |-> suffix, is_file |-> is_file]

DirEntries ==
    << Entry("TED.WAV", ".WAV", TRUE),
       Entry("es_test_clip.wav", ".wav", TRUE),
       Entry("jfk.wav", ".wav", TRUE),
       Entry("notes.txt", ".txt", TRUE),
       Entry("old.wav", ".wav", FALSE) >>

EntrySet == {DirEntries[i] : i \in DOMAIN DirEntries}

\* position of a path in the sorted order of all paths
Rank(e) == CHOOSE i \in DOMAIN DirEntries : DirEntries[i] = e

\* str.lower() on the suffixes in use
Lower(suffix) == IF suffix = ".WAV" THEN ".wav" ELSE suffix

audio_extensions == {".wav", ".m4a", ".mp3", ".flac", ".aac"}

\* sorted(audio_files)
RECURSIVE Insert(_, _)
Insert(sorted, e) ==
    IF sorted = <<>> THEN <<e>>
    ELSE IF Rank(e) < Rank(Head(sorted)) THEN <<e>> \o sorted
    ELSE <<Head(sorted)>> \o Insert(Tail(sorted), e)

RECURSIVE Sorted(_)
Sorted(files) ==
    IF files = <<>> THEN <<>>
    ELSE Insert(Sorted(SubSeq(files, 1, Len(files) - 1)), files[Len(files)])

IsAudioFile(e) == e.is_file /\ Lower(e.suffix) \in audio_extensions

\* get_test_audio_files(): the files found, and whether the missing
\* directory was reported
get_test_audio_files(dir) ==
    IF ~dir.exists THEN <<>>
    ELSE Sorted(SelectSeq(dir.entries, IsAudioFile))

\* find_target with the first file taken when no name matches
find_target_default(files, name) ==
    IF \E i \in 1..Len(files) : files[i].name = name
    THEN CHOOSE i \in 1..Len(files) :
             files[i].name = name
             /\ \A j \in 1..(i - 1) : files[j].name # name
    ELSE IF files # <<>> THEN 1 ELSE 0

\* "for file_path in test_files: if file_path.name == args.file: ... break":
\* the index of the first file of that name, 0 for "target_file = None"
find_target(files, name) ==
    IF \E i \in 1..Len(files) : files[i].name = name
    THEN CHOOSE i \in 1..Len(files) :
             files[i].name = name
             /\ \A j \in 1..(i - 1) : files[j].name # name
    ELSE 0

\* args.file: None when --file is not given
NoFile == [given |-> FALSE, name |-> ""]
FileArg(name) == [given |-> TRUE, name |-> name]
FileArgs ==
    {NoFile} \cup {FileArg(n) : n \in {"", "missing.wav", "jfk.wav",
                                       "notes.txt", "old.wav", "TED.WAV"}}

\* listings of the resources directory: iterdir() yields the entries
\* present in any order
Listings ==
    {l \in UNION {[1..n -> EntrySet] : n \in 0..MaxEntries} :
        \A i \in DOMAIN l : \A j \in DOMAIN l : i # j => l[i] # l[j]}

Dirs ==
    {[exists |-> FALSE, entries |-> <<>>]}
    \cup {[exists |-> TRUE, entries |-> l] : l \in Listings}

\* main() from parse_args() to the start of the processing loop
main_start(dir, file) ==
    LET found == get_test_audio_files(dir)
        missing_dir == IF dir.exists THEN <<>> ELSE <<"resources_dir_not_found">>
    IN  IF found = <<>>
        THEN [exit |-> 1, files |-> <<>>, test_files |-> found,
              out |-> missing_dir \o <<"no_test_files">>]
        ELSE IF file.given /\ file.name # ""
        THEN LET t == find_target(found, file.name)
             IN  IF t = 0
                 THEN [exit |-> 1, files |-> <<>>, test_files |-> found,
                       out |-> <<"available_files", "file_not_found">>]
                 ELSE [exit |-> -1, files |-> <<found[t]>>,
                       test_files |-> found, out |-> <<"available_files">>]
        ELSE [exit |-> -1, files |-> found, test_files |-> found,
              out |-> <<"available_files">>]

\* the programs with a main(): the two test scripts, and whisperkit_client.py
\* run with one of its four commands
TestScripts == {"transcribe", "translate"}
CliPathCommands == {"cli_transcribe", "cli_translate", "cli_compare"}
CliTestCommand == "cli_test"

\* the command line: --file of a test script is optional, audio_file of the
\* client's transcribe, translate and compare is required, and the client's
\* test command takes no file
ScriptIdle ==
    /\ s_pc = "start"
    /\ s_dir \in Dirs
    /\ \/ s_script \in TestScripts /\ s_file \in FileArgs
       \/ s_script \in CliPathCommands /\ s_file \in FileArgs \ {NoFile}
       \/ s_script = CliTestCommand /\ s_file = NoFile
    /\ test_files = <<>> /\ files_to_process = <<>> /\ s_idx = 0
    /\ s_out = <<>> /\ s_calls = <<>> /\ exit_code = -1

\* test_transcribe.py main(), up to the processing loop
TranscribeMain ==
    /\ s_pc = "start" /\ s_script = "transcribe"
    /\ LET m == main_start(s_dir, s_file)
       IN  /\ test_files' = m.test_files
           /\ files_to_process' = m.files
           /\ s_out' = m.out
           /\ exit_code' = m.exit
           /\ s_pc' = IF m.exit = -1 THEN "loop" ELSE "exited"
           /\ s_idx' = IF m.exit = -1 THEN 1 ELSE 0
    /\ UNCHANGED <<s_script, s_dir, s_file, s_calls>>
    /\ UNCHANGED <<clean_vars, client_vars>>

\* test_translate.py main(), up to the processing loop
TranslateMain ==
    /\ s_pc = "start" /\ s_script = "translate"
    /\ LET m == main_start(s_dir, s_file)
       IN  /\ test_files' = m.test_files
           /\ files_to_process' = m.files
           /\ s_out' = m.out
           /\ exit_code' = m.exit
           /\ s_pc' = IF m.exit = -1 THEN "loop" ELSE "exited"
           /\ s_idx' = IF m.exit = -1 THEN 1 ELSE 0
    /\ UNCHANGED <<s_script, s_dir, s_file, s_calls>>
    /\ UNCHANGED <<clean_vars, client_vars>>

\* what can happen to one file: open() fails, the API call raises, or the
\* server answers
FileOutcomes == {"open_failed", "api_error", "ok"}

\* one iteration of the processing loop: the file's name is printed,
\* transcribe_test_file / translate_test_file is called and its result is
\* reported; after a success audio_file.stat() is called outside any try,
\* and ends the process with a traceback when it raises
ProcessFile ==
    /\ s_pc = "loop" /\ s_script \in TestScripts
    /\ s_idx <= Len(files_to_process)
    /\ \E o \in FileOutcomes : \E stat_ok \in BOOLEAN :
          LET name == files_to_process[s_idx].name
              crash == o = "ok" /\ ~stat_ok
          IN  /\ s_calls' = IF o = "open_failed" THEN s_calls
                            ELSE Append(s_calls,
                                     [api |-> s_script, file |-> name])
              /\ s_out' = s_out \o <<name>>
                              \o (IF o = "ok" THEN <<"success">>
                                  ELSE <<"failed">>)
                              \o (IF crash THEN <<"traceback">> ELSE <<>>)
              /\ s_pc' = IF crash THEN "exited" ELSE "loop"
              /\ exit_code' = IF crash THEN 1 ELSE exit_code
    /\ s_idx' = s_idx + 1
    /\ UNCHANGED <<s_script, s_dir, s_file, test_files, files_to_process>>
    /\ UNCHANGED <<clean_vars, client_vars>>

\* loop_exit with a failed file turned into the exit status
loop_exit_escalating(out) ==
    IF \E i \in 1..Len(out) : out[i] = "failed" THEN 1 ELSE 0

\* main() returns after the summary, whatever was printed for the files: the
\* process ends with status 0
loop_exit(out) == 0

\* the loop is over: the summary is printed and main() returns
ScriptFinish ==
    /\ s_pc = "loop" /\ s_script \in TestScripts
    /\ s_idx > Len(files_to_process)
    /\ s_out' = Append(s_out, "complete")
    /\ exit_code' = loop_exit(s_out)
    /\ s_pc' = "exited"
    /\ UNCHANGED <<s_script, s_dir, s_file, test_files, files_to_process,
                   s_idx, s_calls>>
    /\ UNCHANGED <<clean_vars, client_vars>>

-----------------------------------------------------------------------------
(* SpecScript: main() of whisperkit_client.py                              *)

\* open(path, "rb") succeeds only on a regular file that is there
Openable(dir, name) ==
    dir.exists /\ \E i \in 1..Len(dir.entries) :
                      dir.entries[i].name = name /\ dir.entries[i].is_file

\* the outcomes a request for that path can have
PathOutcomes(dir, name) ==
    IF Openable(dir, name) THEN PlainOutcomes ELSE {OpenFailed}

\* what a call prints last: its text, or the failure
Report(value) == IF value = None THEN "failed" ELSE "success"

\* the request a call made, if open() let it get that far
Requested(api, name, o) ==
    IF o.io = "open_failed" THEN <<>> ELSE <<[api |-> api, file |-> name]>>

\* main() returns after the command, whatever the command returned: the
\* process ends with status 0
cli_exit(value) == 0

\* the transcribe command: client.transcribe(args.audio_file, ...), with
\* args.stream left False
CliTranscribe ==
    /\ s_pc = "start" /\ s_script = "cli_transcribe"
    /\ \E o \in PathOutcomes(s_dir, s_file.name) :
          LET value == except_transcribe(transcribe_non_streaming(o)).value
          IN  /\ s_calls' = Requested("transcribe", s_file.name, o)
              /\ s_out' = <<Report(value)>>
              /\ exit_code' = cli_exit(value)
    /\ s_pc' = "exited"
    /\ UNCHANGED <<s_script, s_dir, s_file, test_files, files_to_process,
                   s_idx>>
    /\ UNCHANGED <<clean_vars, client_vars>>

\* the translate command: client.translate(args.audio_file, ...)
CliTranslate ==
    /\ s_pc = "start" /\ s_script = "cli_translate"
    /\ \E o \in PathOutcomes(s_dir, s_file.name) :
          LET value == except_translate(translate_body(o)).value
          IN  /\ s_calls' = Requested("translate", s_file.name, o)
              /\ s_out' = <<Report(value)>>
              /\ exit_code' = cli_exit(value)
    /\ s_pc' = "exited"
    /\ UNCHANGED <<s_script, s_dir, s_file, test_files, files_to_process,
                   s_idx>>
    /\ UNCHANGED <<clean_vars, client_vars>>

\* the compare command: show_format_comparison calls
\* _transcribe_non_streaming for "json" and then for "verbose_json"
CliCompare ==
    /\ s_pc = "start" /\ s_script = "cli_compare"
    /\ \E o1 \in PathOutcomes(s_dir, s_file.name) :
       \E o2 \in PathOutcomes(s_dir, s_file.name) :
          LET json_result == transcribe_non_streaming(o1).value
              verbose_result == transcribe_non_streaming(o2).value
          IN  /\ s_calls' = Requested("transcribe", s_file.name, o1)
                            \o Requested("transcribe", s_file.name, o2)
              /\ s_out' = <<Report(json_result), Report(verbose_result),
                            "key_differences">>
              /\ exit_code' = cli_exit(verbose_result)
    /\ s_pc' = "exited"
    /\ UNCHANGED <<s_script, s_dir, s_file, test_files, files_to_process,
                   s_idx>>
    /\ UNCHANGED <<clean_vars, client_vars>>

\* "if f.suffix.lower() in audio_extensions": run_tests does not ask
\* whether the entry is a file
HasAudioSuffix(e) == Lower(e.suffix) \in audio_extensions

\* '"es_" in filename or "ja_" in filename', on the names in use
NeedsTranslation(name) == name = "es_test_clip.wav"

\* run_tests() from its start to the loop over sorted(audio_files)
run_tests_start(dir) ==
    LET audio_files == IF dir.exists
                       THEN SelectSeq(dir.entries, HasAudioSuffix) ELSE <<>>
    IN  IF ~dir.exists
        THEN [returned |-> TRUE, files |-> <<>>,
              out |-> <<"resources_dir_not_found">>]
        ELSE IF audio_files = <<>>
        THEN [returned |-> TRUE, files |-> <<>>, out |-> <<"no_audio_files">>]
        ELSE [returned |-> FALSE, files |-> Sorted(audio_files),
              out |-> <<"found_audio_files">>]

\* the test command, up to the loop of run_tests
CliTest ==
    /\ s_pc = "start" /\ s_script = CliTestCommand
    /\ LET r == run_tests_start(s_dir)
       IN  /\ files_to_process' = r.files
           /\ test_files' = r.files
           /\ s_out' = r.out
           /\ s_pc' = IF r.returned THEN "exited" ELSE "loop"
           /\ s_idx' = IF r.returned THEN 0 ELSE 1
           /\ exit_code' = IF r.returned THEN cli_exit(None) ELSE exit_code
    /\ UNCHANGED <<s_script, s_dir, s_file, s_calls>>
    /\ UNCHANGED <<clean_vars, client_vars>>

\* one iteration of the loop of run_tests: the file's name is printed, the
\* file is transcribed and, when its name asks for it, translated
RunTestsFile ==
    /\ s_pc = "loop" /\ s_script = CliTestCommand
    /\ s_idx <= Len(files_to_process)
    /\ LET name == files_to_process[s_idx].name
       IN  \E o1 \in PathOutcomes(s_dir, name) :
           \E o2 \in PathOutcomes(s_dir, name) :
              LET transcribed ==
                      except_transcribe(transcribe_non_streaming(o1)).value
                  translated == except_translate(translate_body(o2)).value
              IN  IF NeedsTranslation(name)
                  THEN /\ s_calls' = s_calls
                                     \o Requested("transcribe", name, o1)
                                     \o Requested("translate", name, o2)
                       /\ s_out' = s_out \o <<name, Report(transcribed),
                                             Report(translated)>>
                  ELSE /\ s_calls' = s_calls
                                     \o Requested("transcribe", name, o1)
                       /\ s_out' = s_out \o <<name, Report(transcribed)>>
    /\ s_idx' = s_idx + 1
    /\ UNCHANGED <<s_pc, s_script, s_dir, s_file, test_files,
                   files_to_process, exit_code>>
    /\ UNCHANGED <<clean_vars, client_vars>>

\* resources_path.glob("*.wav"): the pattern is matched as written, against
\* files and directories alike
WavEntries(dir) ==
    {dir.entries[i] : i \in {j \in 1..Len(dir.entries) :
                                 dir.entries[j].suffix = ".wav"}}

\* after the loop of run_tests: test_logprobs() posts test_files[0] of the
\* glob, whose order is the file system's, and its result is not looked at;
\* run_tests and main() return
RunTestsFinish ==
    /\ s_pc = "loop" /\ s_script = CliTestCommand
    /\ s_idx > Len(files_to_process)
    /\ IF WavEntries(s_dir) = {}
       THEN /\ s_out' = s_out \o <<"logprobs", "logprobs_failed">>
            /\ exit_code' = cli_exit(None)
            /\ UNCHANGED s_calls
       ELSE \E e \in WavEntries(s_dir) :
            \E o \in PathOutcomes(s_dir, e.name) :
            \E has_logprobs \in BOOLEAN :
               LET value == IF has_logprobs
                            THEN except_non_streaming(
                                     non_streaming_body(o)).value
                            ELSE None
               IN  /\ s_calls' = s_calls \o Requested("logprobs", e.name, o)
                   /\ s_out' = s_out \o <<"logprobs",
                                           IF value = None
                                           THEN "logprobs_failed"
                                           ELSE "logprobs_ok">>
                   /\ exit_code' = cli_exit(value)
    /\ s_pc' = "exited"
    /\ UNCHANGED <<s_script, s_dir, s_file, test_files, files_to_process,
                   s_idx>>
    /\ UNCHANGED <<clean_vars, client_vars>>

ScriptInit == ScriptIdle /\ ClientUnused /\ CleanUnused

ScriptNext ==
    \/ TranscribeMain
    \/ TranslateMain
    \/ ProcessFile
    \/ ScriptFinish
    \/ CliTranscribe
    \/ CliTranslate
    \/ CliCompare
    \/ CliTest
    \/ RunTestsFile
    \/ RunTestsFinish

SpecScript == ScriptInit /\ [][ScriptNext]_vars

-----------------------------------------------------------------------------
(* Properties of _clean_whisperkit_text                                    *)

\* C3: the output of _clean_whisperkit_text holds no "<|" followed by any
\* characters followed by "|>".
C3_NoMarkerInOutput ==
    c_pc \in {"once", "twice"} => ~HasMarkerShape(c_once)

\* C4: _clean_whisperkit_text is idempotent: cleaning a cleaned text gives
\* the same text.
C4_CleanIdempotent ==
    c_pc = "twice" => c_twice = c_once

-----------------------------------------------------------------------------
(* Properties of the stream event consumer                                 *)

IsDelta(e) == e.kind = "json_object" /\ e.type = DeltaType
IsDone(e) == e.kind = "json_object" /\ e.type = DoneType
IsRaw(e) == e.kind = "not_json"

LastSeen == seen[Len(seen)]

\* C1: right after a done event that carries a 'text' field is processed,
\* the accumulated final text is that field, whatever was processed before.
C1_DoneTextReplaces ==
    (seen # <<>> /\ IsDone(LastSeen) /\ LastSeen.has_text)
        => final_text = LastSeen.text

\* a done event has just replaced text accumulated from a delta and a raw
\* payload
C1_Witness ==
    /\ Len(seen) = 3
    /\ IsDelta(seen[1]) /\ seen[1].has_delta
    /\ clean_whisperkit_text(seen[1].delta) # <<>>
    /\ IsRaw(seen[2]) /\ Strip(seen[2].raw) # <<>>
    /\ IsDone(seen[3]) /\ seen[3].has_text /\ seen[3].text = <<"c">>
    /\ final_text = <<"c">>

\* the first done event of the stream that carries a text
IsFirstDone(i) ==
    /\ IsDone(seen[i]) /\ seen[i].has_text
    /\ \A j \in 1..(i - 1) : ~(IsDone(seen[j]) /\ seen[j].has_text)

\* C2: done is terminal: once a done event was observed, no later line of
\* the stream changes the final text, and the value returned is the text of
\* the first done event.
C2_DoneIsTerminal ==
    \A i \in 1..Len(seen) :
        IsFirstDone(i) =>
            /\ final_text = seen[i].text
            /\ (pc = "returned" /\ stream_end = "exhausted"
                /\ seen[i].text # <<>>) => result = Str(seen[i].text)

NoDeltaOrDone == \A i \in 1..Len(seen) : ~IsDelta(seen[i]) /\ ~IsDone(seen[i])

NoRawText ==
    \A i \in 1..Len(seen) : IsRaw(seen[i]) => Strip(seen[i].raw) = <<>>

\* what the caller gets from a non-streaming attempt, as the claims state it:
\* the text of a status-200 JSON object, None otherwise
ExpectedOf(a) ==
    IF a.resp.io = "answered" /\ a.resp.status = 200 /\ a.resp.body = "object"
    THEN Str(IF a.resp.has_text THEN a.resp.text ELSE <<>>)
    ELSE None

\* the second attempt of the call is the non-streaming transcription of the
\* same audio with the same language, model, format and granularities
FallbackMade ==
    /\ Len(attempts) = 2
    /\ LET a == attempts[2]
       IN  /\ a.method = "_transcribe_non_streaming"
           /\ a.args.audio_path = call.audio_path
           /\ a.args.language = call.language
           /\ a.args.model = call.model
           /\ a.args.response_format = call.response_format
           /\ a.args.timestamp_granularities = call.timestamp_granularities
           /\ a.sent =>
                 /\ a.url = TranscriptionsUrl /\ ~a.sse
                 /\ a.file = call.audio_path
                 /\ "stream" \notin DOMAIN a.data
                 /\ a.data["model"] = <<call.model>>
                 /\ a.data["response_format"] = <<call.response_format>>
                 /\ ("language" \in DOMAIN a.data <=> call.language # "")
                 /\ call.language # "" =>
                        a.data["language"] = <<call.language>>
                 /\ (GranularitiesField \in DOMAIN a.data
                        <=> call.timestamp_granularities # <<>>)
                 /\ call.timestamp_granularities # <<>> =>
                        a.data[GranularitiesField]
                            = Join(call.timestamp_granularities)
           /\ result = ExpectedOf(a)

\* C5 as stated: a status-200 stream exhausted without any delta or done
\* event makes the call fall back to the non-streaming request for the same
\* audio and parameters, and return its result.
C5_FallbackWithoutDeltaOrDone ==
    (stream_end = "exhausted" /\ NoDeltaOrDone) => FallbackMade

\* C5 (amended): a status-200 stream exhausted without any delta or done
\* event and without any non-blank non-JSON payload makes the call fall
\* back to the non-streaming transcription of the same audio and parameters,
\* and return its result.
C5_FallbackWithoutText ==
    (stream_end = "exhausted" /\ NoDeltaOrDone /\ NoRawText) => FallbackMade

\* the stream held only unclassified lines, and the fallback's answer was
\* returned
C5_Witness ==
    /\ stream_end = "exhausted" /\ NoDeltaOrDone /\ NoRawText
    /\ Len(seen) = 2 /\ seen[1].kind = "json_object" /\ IsRaw(seen[2])
    /\ call.language = "en"
    /\ call.timestamp_granularities = <<"word", "segment">>
    /\ Len(attempts) = 2 /\ attempts[2].sent
    /\ result = Str(<<"h", "i">>)

Streaming(i) == attempts[i].method = "_transcribe_streaming"
NonStreaming(i) == attempts[i].method = "_transcribe_non_streaming"

\* C6: during one call of transcribe at most one streaming and at most one
\* non-streaming request are made, no streaming attempt follows the
\* non-streaming one, and nothing is repeated whatever the server answers.
C6_FallbackOneShot ==
    call.op = "transcribe" =>
        /\ Cardinality({i \in 1..Len(attempts) : Streaming(i)}) <= 1
        /\ Cardinality({i \in 1..Len(attempts) : NonStreaming(i)}) <= 1
        /\ \A i \in 1..Len(attempts) : \A j \in 1..Len(attempts) :
              (i < j /\ NonStreaming(i)) => ~Streaming(j)
        /\ \A i \in 1..Len(attempts) : Streaming(i) \/ NonStreaming(i)

\* the fallback request was answered with an error and the call returned
C6_Witness ==
    /\ pc = "returned" /\ call.op = "transcribe"
    /\ Len(attempts) = 2 /\ Streaming(1) /\ NonStreaming(2)
    /\ attempts[2].resp.io = "answered" /\ attempts[2].resp.status = 500
    /\ result = None

RECURSIVE CleanedDeltas(_)
CleanedDeltas(ls) ==
    IF ls = <<>> THEN <<>>
    ELSE (IF IsDelta(Head(ls)) /\ Head(ls).has_delta
          THEN clean_whisperkit_text(Head(ls).delta) ELSE <<>>)
         \o CleanedDeltas(Tail(ls))

\* C7: until a done event or a non-JSON payload is seen, the accumulated
\* text is the concatenation, in arrival order, of the cleaned text of the
\* deltas received so far.
C7_DeltasInArrivalOrder ==
    (\A i \in 1..Len(seen) : ~IsDone(seen[i]) /\ ~IsRaw(seen[i]))
        => final_text = CleanedDeltas(seen)

\* two different deltas were accumulated, the later one after the earlier
C7_Witness ==
    /\ Len(seen) = 3
    /\ IsDelta(seen[1]) /\ clean_whisperkit_text(seen[1].delta) = <<"a">>
    /\ seen[2].kind = "empty"
    /\ IsDelta(seen[3]) /\ clean_whisperkit_text(seen[3].delta) = <<"b">>
    /\ final_text = <<"a", "b">>

-----------------------------------------------------------------------------
(* Properties of the requests and of error handling                        *)

\* the attempt did not produce a transcription: open() or the post raised,
\* the status is not a success, or the body could not be decoded
AttemptFailed(a) ==
    \/ a.resp.io # "answered"
    \/ a.resp.status \notin 200..299
    \/ (a.method # "_transcribe_streaming" /\ a.resp.body # "object")

\* C8: no method raises to its caller; a failed attempt (non-success status,
\* or an exception while opening the file, sending or decoding) ends the
\* call with None and is followed by no further request, and an exception
\* while the stream is read ends the call with None and no fallback.
C8_ErrorsReturnNone ==
    /\ raised = {}
    /\ \A i \in 1..Len(attempts) :
          AttemptFailed(attempts[i]) =>
              /\ i = Len(attempts)
              /\ pc = "returned"
              /\ result = None
    /\ stream_end = "exception" =>
          /\ pc = "returned" /\ result = None /\ Len(attempts) = 1

\* translate got status 200 with a body that is not JSON, and returned None
C8_Witness ==
    /\ pc = "returned" /\ call.op = "translate"
    /\ attempts[1].resp.io = "answered" /\ attempts[1].resp.status = 200
    /\ attempts[1].resp.body = "not_json"
    /\ result = None /\ raised = {}

\* C9: a translation request never carries timestamp_granularities[],
\* whatever was supplied; a transcription request carries it exactly when a
\* non-empty granularity list was supplied.
C9_GranularitiesField ==
    \A i \in 1..Len(attempts) :
        LET a == attempts[i]
        IN  a.sent =>
              /\ a.method = "translate" => a.url = TranslationsUrl
              /\ a.method # "translate" => a.url = TranscriptionsUrl
              /\ a.url = TranslationsUrl =>
                    GranularitiesField \notin DOMAIN a.data
              /\ a.url = TranscriptionsUrl =>
                    (GranularitiesField \in DOMAIN a.data
                        <=> call.timestamp_granularities # <<>>)

\* a translation was requested with both granularities supplied
C9_Witness ==
    /\ call.op = "translate"
    /\ call.timestamp_granularities = <<"word", "segment">>
    /\ Len(attempts) = 1 /\ attempts[1].sent
    /\ attempts[1].url = TranslationsUrl
    /\ result = Str(<<"h", "i">>)

-----------------------------------------------------------------------------
(* Further properties of the stream event consumer                         *)

\* the call returned a text that the streaming consumer accumulated
ReturnedFromStream ==
    /\ pc = "returned" /\ stream_end = "exhausted" /\ Len(attempts) = 1
    /\ ~result.none

\* C12: no text the streaming consumer returns holds a <|...|> marker,
\* whether the marker came in deltas, in the text of the done event or in a
\* non-JSON payload.
C12_NoMarkerReturned ==
    ReturnedFromStream => ~HasMarkerShape(result.text)

\* the line the step has just consumed
JustRead(e) == seen' = Append(seen, e)

Malformed(e) == e.kind \in {"not_json", "json_value"}

\* C13: a malformed event (a payload that is not JSON, or JSON that is not
\* an object) never ends the stream: after it the consumer is still reading.
C13_MalformedNeverAborts ==
    [][\A e \in Lines :
          (pc = "streaming" /\ JustRead(e) /\ Malformed(e))
              => (pc' = "streaming" /\ stream_end' = "open")]_vars

\* the streaming attempt of the call failed: the request was answered with a
\* status other than 200, or an exception was raised while the stream was
\* sent or read
StreamingFailed ==
    /\ pc = "returned" /\ call.op = "transcribe" /\ call.stream
    /\ \/ attempts[1].resp.io # "answered"
       \/ attempts[1].resp.status # 200
       \/ stream_end = "exception"

\* C14 as stated: when the streaming attempt fails, the call falls back
\* exactly once to the non-streaming request for the same audio and returns
\* its result.
C14_FailureFallsBack ==
    StreamingFailed =>
        /\ Len(attempts) = 2 /\ Streaming(1) /\ NonStreaming(2)
        /\ attempts[2].args.audio_path = call.audio_path
        /\ result = ExpectedOf(attempts[2])

\* C14 (amended): when the streaming attempt fails, the call returns None
\* and makes no further request; the one fallback to the non-streaming
\* request is made only after a status-200 stream was read to its end with
\* an empty final text.
C14_FailureReturnsNone ==
    /\ StreamingFailed => (Len(attempts) = 1 /\ Streaming(1) /\ result = None)
    /\ Len(attempts) = 2 =>
          /\ attempts[1].resp.io = "answered" /\ attempts[1].resp.status = 200
          /\ stream_end = "exhausted" /\ final_text = <<>>
          /\ Streaming(1) /\ NonStreaming(2)

\* the streaming request was answered with status 500 and the call returned
\* None after that one request
C14_Witness ==
    /\ StreamingFailed
    /\ attempts[1].sent /\ attempts[1].resp.io = "answered"
    /\ attempts[1].resp.status = 500
    /\ Len(attempts) = 1 /\ result = None

\* s ends with t
EndsWith(s, t) ==
    Len(t) <= Len(s) /\ SubSeq(s, Len(s) - Len(t) + 1, Len(s)) = t

\* C15 as stated: after a payload that is not JSON, the accumulated text is
\* the text accumulated before it, still there, with the payload exactly as
\* received at its end.
C15_RawTakenVerbatim ==
    [][\A e \in Lines :
          (pc = "streaming" /\ JustRead(e) /\ IsRaw(e))
              => /\ EndsWith(final_text', e.raw)
                 /\ SubSeq(final_text', 1, Len(final_text)) = final_text]_vars

\* C15 (amended): after a payload that is not JSON, the accumulated text is
\* the payload without its leading and trailing whitespace, in place of the
\* text accumulated before; a payload of whitespace only leaves the text as
\* it was.
C15_RawStrippedReplaces ==
    [][\A e \in Lines :
          (pc = "streaming" /\ JustRead(e) /\ IsRaw(e))
              => /\ Strip(e.raw) # <<>> => final_text' = Strip(e.raw)
                 /\ Strip(e.raw) = <<>> => final_text' = final_text
                 /\ pc' = "streaming"]_vars

\* a payload with whitespace around it came after a delta, and the text held
\* is the payload alone, without that whitespace
C15_Witness ==
    /\ Len(seen) = 2
    /\ IsDelta(seen[1]) /\ clean_whisperkit_text(seen[1].delta) = <<"a">>
    /\ IsRaw(seen[2]) /\ seen[2].raw = <<" ", "r", " ">>
    /\ final_text = <<"r">>

\* an event that is neither a delta with a non-empty 'delta', nor a done
\* event, nor a malformed payload
Unclassified(e) ==
    \/ e.kind \in {"empty", "no_prefix"}
    \/ e.kind = "json_object" /\ e.type \notin {DeltaType, DoneType}
    \/ IsDelta(e) /\ (~e.has_delta \/ e.delta = <<>>)

\* C16: an object of another or of no type, a delta event whose 'delta' is
\* missing or empty, a line without the "data: " prefix and an empty line
\* each leave the accumulated text as it was.
C16_UnclassifiedKeepsText ==
    [][\A e \in Lines :
          (pc = "streaming" /\ JustRead(e) /\ Unclassified(e))
              => (final_text' = final_text /\ pc' = "streaming")]_vars

\* a delta was accumulated, then an event of another type and a delta event
\* without 'delta' were read, and the text is still that of the delta
C16_Witness ==
    /\ Len(seen) = 3
    /\ IsDelta(seen[1]) /\ clean_whisperkit_text(seen[1].delta) = <<"a">>
    /\ seen[2].kind = "json_object" /\ seen[2].type = "other"
    /\ IsDelta(seen[3]) /\ ~seen[3].has_delta
    /\ final_text = <<"a">>

\* the values the server receives for a form field: one per key of the dict
FieldValues(d, k) == IF k \in DOMAIN d THEN {d[k]} ELSE {}

\* C17: a non-streaming transcription request built with a list of inclusion
\* flags carries every flag of the list in an include[] field.
C17_EveryIncludeSent ==
    \A i \in 1..Len(attempts) :
        LET a == attempts[i]
        IN  (a.sent /\ a.method = "_transcribe_non_streaming") =>
                \A k \in 1..Len(a.args.include) :
                    <<a.args.include[k]>> \in FieldValues(a.data, IncludeField)

\* C19: after a status-200 stream is exhausted, the non-streaming request is
\* made exactly when the final text is empty; otherwise the non-empty final
\* text is returned and no further request is made.
C19_FallbackIffEmpty ==
    stream_end = "exhausted" =>
        /\ pc = "returned"
        /\ Len(attempts) = 2 <=> final_text = <<>>
        /\ final_text # <<>> =>
              (Len(attempts) = 1 /\ result = Str(final_text))
        /\ final_text = <<>> =>
              (NonStreaming(2) /\ result = ExpectedOf(attempts[2]))
        /\ result # Str(<<>>) \/ Len(attempts) = 2

\* a delta left text, a done event with an empty text cleared it, and the
\* stream's end was followed by the non-streaming request
C19_Witness ==
    /\ stream_end = "exhausted"
    /\ Len(seen) = 2
    /\ IsDelta(seen[1]) /\ clean_whisperkit_text(seen[1].delta) # <<>>
    /\ IsDone(seen[2]) /\ seen[2].has_text /\ seen[2].text = <<>>
    /\ final_text = <<>>
    /\ Len(attempts) = 2 /\ NonStreaming(2) /\ attempts[2].sent
    /\ result = Str(<<"h", "i">>)

-----------------------------------------------------------------------------
(* Properties of the test scripts                                          *)

DiscoveredNames ==
    LET found == get_test_audio_files(s_dir)
    IN  {found[i].name : i \in 1..Len(found)}

\* what the claims require of a run whose named file is not found: the loop
\* is never entered, no request is made, and the process ends with a
\* non-zero status after the given message
ExitsWithoutRequest(message) ==
    /\ s_pc # "loop"
    /\ s_calls = <<>>
    /\ s_pc = "exited" =>
          /\ exit_code # 0
          /\ s_out # <<>> /\ s_out[Len(s_out)] = message

\* C10 as stated: in the test scripts, when the name given with --file is
\* not among the discovered test audio files, the process reports that the
\* named file is missing and exits non-zero, and no request was made before
\* the exit.
C10_MissingFileReported ==
    (s_script \in TestScripts
     /\ s_file.given /\ s_file.name \notin DiscoveredNames)
        => ExitsWithoutRequest("file_not_found")

\* C10 (amended): in the test scripts, when a non-empty name given with
\* --file is not among the discovered test audio files, the process exits
\* non-zero and no request was made before the exit; it reports the named
\* file as missing when some test audio file was discovered, and that no
\* test audio files were found when none was.
C10_MissingFileExits ==
    (s_script \in TestScripts
     /\ s_file.given /\ s_file.name # "" /\ s_file.name \notin DiscoveredNames)
        => ExitsWithoutRequest(IF DiscoveredNames = {} THEN "no_test_files"
                               ELSE "file_not_found")

\* the named file is in the directory but is no audio file, other files
\* were discovered, and the process has exited
C10_Witness ==
    /\ s_pc = "exited" /\ s_script \in TestScripts
    /\ s_file = FileArg("notes.txt")
    /\ \E i \in 1..Len(s_dir.entries) : s_dir.entries[i].name = "notes.txt"
    /\ Len(test_files) = 2
    /\ exit_code = 1
    /\ s_calls = <<>>

\* the programs that process a sorted list of files one after the other
LoopPrograms == TestScripts \cup {CliTestCommand}

IsEntryName(x) == x \in {DirEntries[i].name : i \in DOMAIN DirEntries}

\* the names printed at the head of the iterations made so far
PrintedNames == SelectSeq(s_out, IsEntryName)

NamesOf(files) == [i \in 1..Len(files) |-> files[i].name]

Printed(message) == \E i \in 1..Len(s_out) : s_out[i] = message

LastPrinted == s_out[Len(s_out)]

\* the files are processed in the order of the sorted list
ProcessedInOrder ==
    /\ \A i \in 1..Len(files_to_process) : \A j \in 1..Len(files_to_process) :
          i < j => Rank(files_to_process[i]) < Rank(files_to_process[j])
    /\ Len(PrintedNames) <= Len(files_to_process)
    /\ PrintedNames = SubSeq(NamesOf(files_to_process), 1, Len(PrintedNames))

-----------------------------------------------------------------------------
(* Properties of the command line of whisperkit_client.py                  *)

\* the path given to transcribe, translate or compare does not exist, or the
\* resources directory of the test command is absent
MissingResource ==
    \/ /\ s_script \in CliPathCommands
       /\ ~(s_dir.exists /\ \E i \in 1..Len(s_dir.entries) :
                                s_dir.entries[i].name = s_file.name)
    \/ /\ s_script = CliTestCommand
       /\ ~s_dir.exists

\* C18: in the command line of whisperkit_client.py a missing local
\* resource ends the process with a message and a non-zero exit status, and
\* no request is sent.
C18_MissingResourceAborts ==
    MissingResource =>
        /\ s_pc # "loop"
        /\ s_calls = <<>>
        /\ s_pc = "exited" => (s_out # <<>> /\ exit_code # 0)

=============================================================================
